---- MODULE Spec2Model ----
(***************************************************************************)
(* Model of the burr-hole self-annotation pipeline: register.py (skull     *)
(* masked rigid registration), subtract.py (difference image) and          *)
(* binarize.py (head cap, candidate mask).                                 *)
(*                                                                         *)
(* Three groups of state:                                                  *)
(*   ref, cap        the reference geometry handed to                      *)
(*                   compute_head_cap_mask and what it computed            *)
(*                   (specification SpecCap)                               *)
(*   input, runs     the images handed to create_skull_mask or             *)
(*                   create_burrhole_mask and the mask each call returned, *)
(*                   by the minimum component size of the call             *)
(*                   (specification SpecMask)                              *)
(*   fs              the case folders under the root: per case, per file   *)
(*                   name, what the file holds                             *)
(*   stage, pc,      the batch script that is running, whether it is in    *)
(*   queue, next,    its loop, the case_dirs it discovered, the index of   *)
(*   report          the next case_dir, and what the loop reported so far  *)
(*   wk              per worker, the position inside the loop body and the *)
(*                   local variables of the call it is in                  *)
(*   prior           history: whether the running script was started right *)
(*                   after a run of the same script in which no case       *)
(*                   failed, and the folders as they were at that start    *)
(*                   (specifications SpecBatch, SpecSupplied)              *)
(***************************************************************************)
EXTENDS Integers, Sequences, FiniteSets, TLC

VARIABLES ref, cap, input, runs, fs, stage, pc, queue, next, report, wk, prior

vars == <<ref, cap, input, runs, fs, stage, pc, queue, next, report, wk, prior>>

capVars == <<ref, cap>>

maskVars == <<input, runs>>

batchVars == <<fs, stage, pc, queue, next, report, wk, prior>>

----------------------------------------------------------------------------
(* Bounds of the exploration *)

\* largest extent of a volume along one index axis
MaxExtent == 3
\* spacings are SpacingStep, 2*SpacingStep, .. MaxSpacingSteps*SpacingStep mm
SpacingStep == 35
MaxSpacingSteps == 3
\* minimum component sizes tried: 1 .. MaxMinSize and the module's constant
MaxMinSize == 3
\* calls of one extractor on the same input
MaxRuns == 2
\* case folders under the root
NumCases == 2
\* workers of the batch driver; with one, the loop is the script's for loop
NumWorkers == 2

----------------------------------------------------------------------------
(* Program constants *)

\* binarize.py: HEAD_CAP_DEPTH_MM = 100.0
HEAD_CAP_DEPTH_MM == 100

----------------------------------------------------------------------------
(* Small helpers standing for Python built-ins *)

Abs(x) == IF x < 0 THEN -x ELSE x

Max2(a, b) == IF a >= b THEN a ELSE b

Min2(a, b) == IF a <= b THEN a ELSE b

Axes3 == 0..2

\* int(a / b) for a >= 0, b > 0: truncation toward zero
IntDiv(a, b) == a \div b

----------------------------------------------------------------------------
(* Geometry of a volume.  size and spacing are indexed by the index axis   *)
(* 0..2 (x, y, z); direction is the list of 9 values GetDirection returns: *)
(* the 3x3 direction matrix flattened row by row, so that the matrix entry *)
(* in row r, column c is direction[3*r + c + 1] and COLUMN j of the matrix *)
(* is the physical direction of index axis j.  Entries are in fifths, so   *)
(* that the 3-4-5 rotations are exact.                                     *)

MatrixEntry(direction, r, c) == direction[3 * r + c + 1]

RowVectors ==
    { v \in [Axes3 -> {-5, -4, -3, 0, 3, 4, 5}] :
        v[0] * v[0] + v[1] * v[1] + v[2] * v[2] = 25 }

Dot(u, v) == u[0] * v[0] + u[1] * v[1] + u[2] * v[2]

Flatten(r0, r1, r2) ==
    <<r0[0], r0[1], r0[2], r1[0], r1[1], r1[2], r2[0], r2[1], r2[2]>>

AxisVectors == { v \in RowVectors : \E j \in Axes3 : Abs(v[j]) = 5 }

\* the 48 signed axis permutations (every orientation of an axis-aligned scan)
SignedPermutations ==
    { Flatten(r0, r1, r2) : <<r0, r1, r2>> \in
        { t \in AxisVectors \X AxisVectors \X AxisVectors :
            Dot(t[1], t[2]) = 0 /\ Dot(t[1], t[3]) = 0 /\ Dot(t[2], t[3]) = 0 } }

\* gantry-tilt like oblique orientations: rotations by the 3-4-5 angle
ObliqueDirections ==
    { << 5, 0, 0,   0, 4, -3,   0, 3, 4 >>,
      << 5, 0, 0,   0, 4, 3,    0, -3, 4 >>,
      << 4, 0, 3,   0, 5, 0,   -3, 0, 4 >>,
      << 4, -3, 0,  3, 4, 0,    0, 0, 5 >>,
      << 5, 0, 0,   0, 3, -4,   0, 4, 3 >>,
      << 3, 0, 4,   0, 5, 0,   -4, 0, 3 >>,
      << 5, 0, 0,   0, -4, 3,   0, -3, -4 >> }

Directions == SignedPermutations \cup ObliqueDirections

IdentityDirection == << 5, 0, 0,   0, 5, 0,   0, 0, 5 >>

Extents == 1..MaxExtent

Spacings == { SpacingStep * k : k \in 1..MaxSpacingSteps }

Geometries ==
    [ size : [Axes3 -> Extents],
      spacing : [Axes3 -> Spacings],
      direction : Directions ]

\* voxel indices (i, j, k) of a volume of the given size
Voxels(size) == (0..(size[0] - 1)) \X (0..(size[1] - 1)) \X (0..(size[2] - 1))

\* indices [z][y][x] of the numpy array GetArrayFromImage returns
ArrayIndices(size) == (0..(size[2] - 1)) \X (0..(size[1] - 1)) \X (0..(size[0] - 1))

----------------------------------------------------------------------------
(* binarize.py: compute_head_cap_mask *)

\* v0, v1, v2 = direction[0:3], direction[3:6], direction[6:9]
axes(direction) == [j \in Axes3 |-> [c \in Axes3 |-> direction[3 * j + c + 1]]]

\* max(range(3), key): the first index at which the key is largest
ArgMaxFirst(key) ==
    CHOOSE j \in Axes3 :
        /\ \A i \in Axes3 : key[i] <= key[j]
        /\ \A i \in Axes3 : i < j => key[i] < key[j]

si_axis_of(direction) ==
    ArgMaxFirst([j \in Axes3 |-> Abs(axes(direction)[j][2])])

si_dir_of(direction) == axes(direction)[si_axis_of(direction)][2]

\* Python's round(a / b) for a >= 0, b > 0: to nearest, ties to even
PyRound(a, b) ==
    LET q == a \div b
        r == a % b
    IN  IF 2 * r < b THEN q
        ELSE IF 2 * r > b THEN q + 1
        ELSE IF q % 2 = 0 THEN q ELSE q + 1

Clamp(x, lo, hi) == IF x < lo THEN lo ELSE IF x > hi THEN hi ELSE x

\* a slip on line 57: round() in place of int()
depth_slices_rounded(spacing_mm, n_slices) ==
    Clamp(PyRound(HEAD_CAP_DEPTH_MM, spacing_mm), 1, n_slices)

\* depth_slices = int(HEAD_CAP_DEPTH_MM / spacing[si_axis]), then the two ifs
depth_slices_of(spacing_mm, n_slices) ==
    LET raw == IntDiv(HEAD_CAP_DEPTH_MM, spacing_mm)
        low == IF raw < 1 THEN 1 ELSE raw
    IN  IF low > n_slices THEN n_slices ELSE low

start_slice_of(si_dir, n_slices, depth_slices) ==
    IF si_dir > 0 THEN Max2(0, n_slices - depth_slices) ELSE 0

end_slice_of(si_dir, n_slices, depth_slices) ==
    IF si_dir > 0 THEN n_slices - 1 ELSE Min2(depth_slices - 1, n_slices - 1)

\* a slip on line 83: slicing the z,y,x array with the index axis itself
axis_map_identity(si_axis) == si_axis

\* axis_map = {0: 2, 1: 1, 2: 0}: index axis -> numpy axis of the z,y,x array
axis_map(si_axis) == 2 - si_axis

\* arr = zeros; arr[slicer] = 1 with slicer[np_axis] = slice(start, end + 1)
FillSlab(size, np_axis, start_slice, end_slice) ==
    [a \in ArrayIndices(size) |->
        IF start_slice <= a[np_axis + 1] /\ a[np_axis + 1] < end_slice + 1
        THEN 1 ELSE 0]

\* sitk.GetImageFromArray: voxel (i, j, k) of the image is arr[k][j][i]
GetImageFromArray(size, arr) ==
    [v \in Voxels(size) |-> arr[<<v[3], v[2], v[1]>>]]

compute_head_cap_mask(reference_image) ==
    LET size == reference_image.size
        spacing == reference_image.spacing
        direction == reference_image.direction
        si_axis == si_axis_of(direction)
        si_dir == si_dir_of(direction)
        n_slices == size[si_axis]
        depth_slices == depth_slices_of(spacing[si_axis], n_slices)
        start_slice == start_slice_of(si_dir, n_slices, depth_slices)
        end_slice == end_slice_of(si_dir, n_slices, depth_slices)
        np_axis == axis_map(si_axis)
        arr == FillSlab(size, np_axis, start_slice, end_slice)
    IN  [ si_axis |-> si_axis,
          si_dir |-> si_dir,
          depth_slices |-> depth_slices,
          start_slice |-> start_slice,
          end_slice |-> end_slice,
          mask |-> GetImageFromArray(size, arr) ]

NoCap == [ si_axis |-> -1 ]

NoRef == [ size |-> << >> ]

NoInput == [ kind |-> "none" ]

NoRuns == << >>

\* the parts of the state a specification does not use
CapIdle == ref = NoRef /\ cap = NoCap

MaskIdle == input = NoInput /\ runs = NoRuns

BatchIdle ==
    /\ fs = << >> /\ stage = "none" /\ pc = "off"
    /\ queue = << >> /\ next = 0 /\ report = << >> /\ wk = << >>
    /\ prior = [ rerun |-> FALSE ]

CapInit ==
    /\ ref \in Geometries
    /\ cap = NoCap
    /\ MaskIdle
    /\ BatchIdle

\* one call of compute_head_cap_mask on the reference volume
ComputeHeadCap ==
    /\ cap = NoCap
    /\ cap' = compute_head_cap_mask(ref)
    /\ UNCHANGED <<ref, maskVars, batchVars>>

CapNext == ComputeHeadCap

SpecCap == CapInit /\ [][CapNext]_vars

CapDone == cap # NoCap

----------------------------------------------------------------------------
(* Voxel-wise image operations of SimpleITK used by the pipeline.  An image *)
(* is a function from the voxel indices of its size to a value; a mask's    *)
(* values are 0 and 1.                                                      *)

Foreground(size, mask) == { v \in Voxels(size) : mask[v] # 0 }

\* a slip in the upper comparison: value < upperThreshold
BinaryThresholdExclusive(size, image, lowerThreshold, upperThreshold) ==
    [v \in Voxels(size) |->
        IF lowerThreshold <= image[v] /\ image[v] < upperThreshold THEN 1 ELSE 0]

\* sitk.BinaryThreshold(image, lower, upper, insideValue=1, outsideValue=0):
\* both bounds are inclusive
BinaryThreshold(size, image, lowerThreshold, upperThreshold) ==
    [v \in Voxels(size) |->
        IF lowerThreshold <= image[v] /\ image[v] <= upperThreshold THEN 1 ELSE 0]

\* the ball structuring element of the given radius on every axis: the offsets
\* inside the ellipsoid whose axes are 2*radius + 1 voxels long
Kernel(radius) ==
    { k \in ((-radius)..radius) \X ((-radius)..radius) \X ((-radius)..radius) :
        4 * (k[1] * k[1] + k[2] * k[2] + k[3] * k[3])
            <= (2 * radius + 1) * (2 * radius + 1) }

Shift(v, k) == <<v[1] + k[1], v[2] + k[2], v[3] + k[3]>>

\* sitk.BinaryMorphologicalClosing(mask, [radius] * 3): dilation, then erosion,
\* by the same ball.  The filter pads the image by the radius (its safe
\* border), so the dilation may leave the image before the erosion crops it.
BinaryMorphologicalClosing(size, mask, radius) ==
    LET kernel == Kernel(radius)
        fg == Foreground(size, mask)
        dilated == UNION { { Shift(f, k) : k \in kernel } : f \in fg }
    IN  [v \in Voxels(size) |->
            IF \A k \in kernel : Shift(v, k) \in dilated THEN 1 ELSE 0]

\* face neighbours (ConnectedComponent's default, fullyConnected = False)
Adjacent(u, v) ==
    Abs(u[1] - v[1]) + Abs(u[2] - v[2]) + Abs(u[3] - v[3]) = 1

RECURSIVE Grow(_, _)
Grow(S, fg) ==
    LET N == S \cup { v \in fg : \E u \in S : Adjacent(u, v) }
    IN  IF N = S THEN S ELSE Grow(N, fg)

\* sitk.ConnectedComponent(mask): the labelled objects, each a set of voxels
ConnectedComponent(size, mask) ==
    LET fg == Foreground(size, mask)
    IN  { Grow({v}, fg) : v \in fg }

\* stats.GetNumberOfPixels(label)
GetNumberOfPixels(component) == Cardinality(component)

\* a slip in the size test: components of at most the minimum are kept
KeepsAtMost(size_px, min_size) == size_px <= min_size

\* if size >= MIN_..._COMPONENT_SIZE: the component is ORed into the result
Keeps(size_px, min_size) == size_px >= min_size

\* cleaned = zeros; for label: if size >= min: cleaned = cleaned | (cc == label);
\* then BinaryThreshold(cleaned, 1, 255, 1, 0)
FilterComponents(size, mask, min_size) ==
    LET cc == ConnectedComponent(size, mask)
        kept == { c \in cc : Keeps(GetNumberOfPixels(c), min_size) }
        cleaned == [v \in Voxels(size) |->
                       IF \E c \in kept : v \in c THEN 1 ELSE 0]
    IN  BinaryThreshold(size, cleaned, 1, 255)

----------------------------------------------------------------------------
(* register.py: create_skull_mask.  The module constants it reads are the  *)
(* fields of config.                                                       *)

BONE_LOWER_HU == 300
BONE_UPPER_HU == 3000
MASK_CLOSING_RADIUS == 1
MIN_SKULL_COMPONENT_SIZE == 500

SkullThreshold(size, image, config) ==
    BinaryThreshold(size, image, config.lower, config.upper)

create_skull_mask(size, image, config) ==
    LET thresholded == SkullThreshold(size, image, config)
        mask == IF config.radius > 0
                THEN BinaryMorphologicalClosing(size, thresholded, config.radius)
                ELSE thresholded
    IN  FilterComponents(size, mask, config.min_size)

----------------------------------------------------------------------------
(* binarize.py: create_burrhole_mask, from the two images read to the mask *)
(* written                                                                  *)

BONE_THRESHOLD_HU == 300
MIN_COMPONENT_SIZE == 50
\* upperThreshold=1e9
BoneUpper == 1000000000

\* sitk.Clamp(diff, lowerBound=0.0)
ClampLower(size, image) ==
    [v \in Voxels(size) |-> IF image[v] < 0 THEN 0 ELSE image[v]]

\* a * b, voxel by voxel
Multiply(size, a, b) == [v \in Voxels(size) |-> a[v] * b[v]]

RECURSIVE SumOf(_, _)
SumOf(S, f) ==
    IF S = {} THEN 0
    ELSE LET x == CHOOSE y \in S : TRUE
         IN  f[x] + SumOf(S \ {x}, f)

\* the between-class variance of the split "value <= t" against "value > t",
\* as the fraction <<numerator, denominator>>; 0 when a class is empty
BetweenClass(size, image, t) ==
    LET low == { v \in Voxels(size) : image[v] <= t }
        high == { v \in Voxels(size) : image[v] > t }
        n0 == Cardinality(low)
        n1 == Cardinality(high)
        d == SumOf(high, image) * n0 - SumOf(low, image) * n1
    IN  IF n0 = 0 \/ n1 = 0 THEN <<0, 1>> ELSE <<d * d, n0 * n1>>

FracLess(a, b) == a[1] * b[2] < b[1] * a[2]

\* Otsu's split: the lowest intensity t of the image that maximises the
\* between-class variance
OtsuSplit(size, image) ==
    LET values == { image[v] : v \in Voxels(size) }
        variance == [t \in values |-> BetweenClass(size, image, t)]
    IN  CHOOSE t \in values :
            /\ \A u \in values : ~FracLess(variance[t], variance[u])
            /\ \A u \in values : u < t => FracLess(variance[u], variance[t])

\* sitk.OtsuThreshold(image, 0, 1): 0 up to the split, 1 above it
OtsuThreshold(size, image) ==
    LET t == OtsuSplit(size, image)
    IN  [v \in Voxels(size) |-> IF image[v] <= t THEN 0 ELSE 1]

create_burrhole_mask(geometry, preop, diff, min_size) ==
    LET size == geometry.size
        bone_mask == BinaryThreshold(size, preop, BONE_THRESHOLD_HU, BoneUpper)
        diff_pos == ClampLower(size, diff)
        diff_bone == Multiply(size, diff_pos, bone_mask)
        candidate_mask == OtsuThreshold(size, diff_bone)
        closed == BinaryMorphologicalClosing(size, candidate_mask, 1)
        cleaned_mask == FilterComponents(size, closed, min_size)
        head_cap_mask == compute_head_cap_mask(geometry).mask
    IN  Multiply(size, cleaned_mask, head_cap_mask)

----------------------------------------------------------------------------
(* The two mask extractors as operations: an input is drawn, then the      *)
(* extractor is called on it with one minimum component size per call.     *)

SizeOf(nx, ny, nz) == (0 :> nx) @@ (1 :> ny) @@ (2 :> nz)

SkullSizes == { SizeOf(2, 2, 1), SizeOf(1, 1, 5) }

\* below bone, bone, above the sanity cap
HULevels == { 0, BONE_LOWER_HU, BONE_UPPER_HU + 1 }

\* an already-binary mask under threshold bounds [1, 1], or a CT image under
\* the module's HU bounds; closing off or on
SkullInputs ==
    { [ kind |-> "skull", size |-> sz, image |-> im,
        lower |-> 1, upper |-> 1, radius |-> r ] :
        <<sz, im, r>> \in
            UNION { {sz} \X [Voxels(sz) -> {0, 1}] \X {0, MASK_CLOSING_RADIUS}
                    : sz \in SkullSizes } }
    \cup
    { [ kind |-> "skull", size |-> sz, image |-> im,
        lower |-> BONE_LOWER_HU, upper |-> BONE_UPPER_HU, radius |-> r ] :
        <<sz, im, r>> \in
            UNION { {sz} \X [Voxels(sz) -> HULevels] \X {0, MASK_CLOSING_RADIUS}
                    : sz \in SkullSizes } }

BurrholeSizes == { SizeOf(2, 2, 1), SizeOf(1, 1, 4) }

\* spacings at which the head cap is two slices and one slice deep
BurrholeSpacings == { HEAD_CAP_DEPTH_MM \div 2, HEAD_CAP_DEPTH_MM }

\* index z toward superior, index z toward inferior, index x along the
\* superior-inferior row of the direction list
BurrholeDirections ==
    { IdentityDirection,
      << 5, 0, 0,   0, 5, 0,   0, 0, -5 >>,
      << 0, 0, 5,   0, 5, 0,   -5, 0, 0 >> }

\* a voxel of the pair (preop HU, diff): soft tissue with a positive
\* difference, bone with bone gained, bone with a small and a large loss
BurrholeVoxels ==
    { <<0, 1>>, <<BONE_THRESHOLD_HU, -1>>, <<BONE_THRESHOLD_HU, 1>>,
      <<BONE_THRESHOLD_HU, 2>> }

BurrholeInputs ==
    { [ kind |-> "burrhole",
        geometry |-> [ size |-> sz, spacing |-> [a \in Axes3 |-> sp],
                       direction |-> dir ],
        preop |-> [v \in Voxels(sz) |-> pd[v][1]],
        diff |-> [v \in Voxels(sz) |-> pd[v][2]] ] :
        <<sz, pd, sp, dir>> \in
            UNION { {sz} \X [Voxels(sz) -> BurrholeVoxels] \X BurrholeSpacings
                        \X BurrholeDirections
                    : sz \in BurrholeSizes } }

SkullMinSizes == (1..MaxMinSize) \cup {MIN_SKULL_COMPONENT_SIZE}

BurrholeMinSizes == (1..MaxMinSize) \cup {MIN_COMPONENT_SIZE}

MaskInit ==
    /\ input \in SkullInputs \cup BurrholeInputs
    /\ runs = NoRuns
    /\ CapIdle
    /\ BatchIdle

\* one call of create_skull_mask with MIN_SKULL_COMPONENT_SIZE = m
RunSkullMask(m) ==
    /\ input.kind = "skull"
    /\ m \notin DOMAIN runs
    /\ Cardinality(DOMAIN runs) < MaxRuns
    /\ runs' = runs @@ (m :> create_skull_mask(input.size, input.image,
                    [ lower |-> input.lower, upper |-> input.upper,
                      radius |-> input.radius, min_size |-> m ]))
    /\ UNCHANGED <<input, capVars, batchVars>>

\* one call of create_burrhole_mask with MIN_COMPONENT_SIZE = m
RunBurrholeMask(m) ==
    /\ input.kind = "burrhole"
    /\ m \notin DOMAIN runs
    /\ Cardinality(DOMAIN runs) < MaxRuns
    /\ runs' = runs @@ (m :> create_burrhole_mask(input.geometry, input.preop,
                    input.diff, m))
    /\ UNCHANGED <<input, capVars, batchVars>>

MaskNext ==
    \/ \E m \in SkullMinSizes : RunSkullMask(m)
    \/ \E m \in BurrholeMinSizes : RunBurrholeMask(m)

SpecMask == MaskInit /\ [][MaskNext]_vars

----------------------------------------------------------------------------
(* Case folders.  A file is absent, partial (what a write that failed      *)
(* midway leaves: it exists and cannot be read), an image or a transform.  *)
(* An image carries its dimension, its grid (the physical space its voxels *)
(* lie in, and the offset of its origin in that space in units of 1e-7 of  *)
(* the spacing) and a term naming how its intensities were computed.       *)

Cases == 1..NumCases

Workers == 1..NumWorkers

\* seeds the registration's random metric sampling may draw
Seeds == { "seed_a", "seed_b" }

PREOP == "preop.nii.gz"
POSTOP == "postop.nii.gz"
TRANSFORMED == "postop_transformed.nii.gz"
TFM == "postop_to_preop.tfm"
DIFF == "diff.nii.gz"
MASK == "burrhole_mask_autoannot.nii.gz"

FileNames == { PREOP, POSTOP, TRANSFORMED, TFM, DIFF, MASK }

Absent == [ kind |-> "absent" ]

Partial == [ kind |-> "partial" ]

ImageFile(dim, grid, data) ==
    [ kind |-> "image", dim |-> dim, grid |-> grid, data |-> data ]

TransformFile(data) == [ kind |-> "tfm", data |-> data ]

GridOf(space, off) == [ space |-> space, off |-> off ]

\* Path.exists(), and "name in filenames" of os.walk
Exists(folder, name) == folder[name].kind # "absent"

\* sitk.ReadImage / sitk.ReadTransform succeed on a complete file of the kind
Readable(folder, name, kind) == folder[name].kind = kind

RECURSIVE Sorted(_)
Sorted(S) ==
    IF S = {} THEN << >>
    ELSE LET m == CHOOSE x \in S : \A y \in S : x <= y
         IN  <<m>> \o Sorted(S \ {m})

\* register.py find_case_dirs: folders with preop.nii.gz and postop.nii.gz
find_case_dirs_register(files) ==
    Sorted({ c \in DOMAIN files :
               Exists(files[c], PREOP) /\ Exists(files[c], POSTOP) })

\* subtract.py find_case_dirs: preop, postop and postop_to_preop.tfm
find_case_dirs_subtract(files) ==
    Sorted({ c \in DOMAIN files :
               /\ Exists(files[c], PREOP)
               /\ Exists(files[c], POSTOP)
               /\ Exists(files[c], TFM) })

\* binarize.py find_case_dirs: preop.nii.gz and diff.nii.gz
find_case_dirs_binarize(files) ==
    Sorted({ c \in DOMAIN files :
               Exists(files[c], PREOP) /\ Exists(files[c], DIFF) })

find_case_dirs(s, files) ==
    CASE s = "register" -> find_case_dirs_register(files)
      [] s = "subtract" -> find_case_dirs_subtract(files)
      [] s = "binarize" -> find_case_dirs_binarize(files)

\* a slip: subtract.py tests the path of the mask, not of its own output
OutputsExistWrongPath(s, folder) ==
    CASE s = "register" -> Exists(folder, TRANSFORMED) /\ Exists(folder, TFM)
      [] s = "subtract" -> Exists(folder, MASK)
      [] s = "binarize" -> Exists(folder, MASK)

\* the loop's "if ... exists(): continue"
OutputsExist(s, folder) ==
    CASE s = "register" -> Exists(folder, TRANSFORMED) /\ Exists(folder, TFM)
      [] s = "subtract" -> Exists(folder, DIFF)
      [] s = "binarize" -> Exists(folder, MASK)

\* a slip: output paths built from the first folder instead of case_dir
OutputFolderShared(case_dir) == 1

\* output paths are case_dir / <name>
OutputFolder(case_dir) == case_dir

\* sitk.WriteImage / sitk.WriteTransform to case_dir / name
WriteFile(files, case_dir, name, content) ==
    [files EXCEPT ![OutputFolder(case_dir)][name] = content]

\* a slip: the transform saved before the resampled image
RegisterWritesSwapped == <<TFM, TRANSFORMED>>

\* register.py lines 156-157: the resampled image is saved, then the transform
RegisterWrites == <<TRANSFORMED, TFM>>

\* a slip: "and" in place of "or" in the dimension test
NotThreeDBoth(fixed, moving) == fixed.dim # 3 /\ moving.dim # 3

\* if fixed.GetDimension() != 3 or moving.GetDimension() != 3
NotThreeD(fixed, moving) == fixed.dim # 3 \/ moving.dim # 3

\* the tolerance ITK allows between the origins of the two operands of a
\* voxel-wise filter, in the units of a grid's offset: 1e-6 of the spacing
CoordinateTolerance == 10

\* the test SimpleITK's voxel-wise operators (a - b, a * b) make on their
\* operands before computing; they raise when it fails
SamePhysicalSpace(a, b) ==
    /\ a.dim = b.dim
    /\ a.grid.space = b.grid.space
    /\ Abs(a.grid.off - b.grid.off) <= CoordinateTolerance

\* a slip: the exception leaves the loop
LoopAborts(nxt, len) == len + 1

\* except Exception as e: print(...) -- the loop goes on with the next case_dir
LoopAfterException(nxt, len) == nxt

ERR_READ == "RuntimeError: cannot read file"
ERR_DIM == "ValueError: Expected 3D images only."
ERR_REGISTRATION == "RuntimeError: registration failed"
ERR_RESAMPLE == "RuntimeError: transform and image dimensions differ"
ERR_SPACE == "RuntimeError: inputs do not occupy the same physical space"
ERR_WRITE == "RuntimeError: cannot write file"

Idle == [ pc |-> "idle" ]

\* history: the script being started is not a re-run
NoPrior == [ rerun |-> FALSE ]

\* history: the script being started is the one that has just finished with
\* no case failed; the folders at this start and the cases that run wrote
Rerun(files, rep) ==
    [ rerun |-> TRUE, files |-> files,
      ok |-> { c \in DOMAIN rep : rep[c].status = "ok" } ]

Entry(status, error) == [ status |-> status, error |-> error ]

----------------------------------------------------------------------------
(* The batch scripts.  main() discovers the case_dirs and loops over them; *)
(* a worker takes the next case_dir, makes the loop's skip test, calls the *)
(* stage's function (reads, computation) and then makes its writes one by  *)
(* one.  With a single worker this is the script's own for loop.           *)

\* main() up to the loop: find_case_dirs, and sys.exit(0) when none is found
StartStage(s) ==
    /\ pc \in {"idle", "done"}
    /\ stage' = s
    /\ queue' = find_case_dirs(s, fs)
    /\ next' = 1
    /\ report' = << >>
    /\ pc' = IF find_case_dirs(s, fs) = << >> THEN "done" ELSE "loop"
    /\ prior' = IF /\ pc = "done" /\ s = stage /\ queue # << >>
                   /\ \A i \in 1..Len(queue) :
                        /\ queue[i] \in DOMAIN report
                        /\ report[queue[i]].status # "failed"
                THEN Rerun(fs, report)
                ELSE NoPrior
    /\ UNCHANGED <<fs, wk, capVars, maskVars>>

\* the head of the loop body: the paths of case_dir and the skip test
Claim(w) ==
    /\ pc = "loop"
    /\ wk[w].pc = "idle"
    /\ next <= Len(queue)
    /\ LET case_dir == queue[next]
       IN  IF OutputsExist(stage, fs[case_dir])
           THEN /\ report' = report @@ (case_dir :> Entry("skipped", ""))
                /\ wk' = wk
           ELSE /\ report' = report
                /\ wk' = [wk EXCEPT ![w] = [ pc |-> "call", case |-> case_dir ]]
    /\ next' = next + 1
    /\ UNCHANGED <<fs, stage, pc, queue, prior, capVars, maskVars>>

\* the call raised e: except Exception as e: print("[WARN] Failed for ...")
Raise(w, e) ==
    /\ report' = report @@ (wk[w].case :> Entry("failed", e))
    /\ wk' = [wk EXCEPT ![w] = Idle]
    /\ next' = LoopAfterException(next, Len(queue))

\* the call returned
Return(w) ==
    /\ report' = report @@ (wk[w].case :> Entry("ok", ""))
    /\ wk' = [wk EXCEPT ![w] = Idle]
    /\ next' = next

\* the call goes on to its writes
Proceed(w, locals) ==
    /\ wk' = [wk EXCEPT ![w] = locals]
    /\ report' = report
    /\ next' = next

\* register.py register_and_resample, lines 90-153: the reads, the dimension
\* test, the skull masks, the registration (which draws its metric samples
\* from a seed and may fail) and the resampling
RegisterCall(w) ==
    /\ stage = "register"
    /\ wk[w].pc = "call"
    /\ LET case_dir == wk[w].case
           folder == fs[case_dir]
           fixed == folder[PREOP]
           moving == folder[POSTOP]
       IN  IF ~Readable(folder, PREOP, "image") \/ ~Readable(folder, POSTOP, "image")
           THEN Raise(w, ERR_READ)
           ELSE IF NotThreeD(fixed, moving)
           THEN Raise(w, ERR_DIM)
           ELSE \/ \E seed \in Seeds :
                     LET transform == [ fixed |-> fixed.data,
                                        moving |-> moving.data,
                                        seed |-> seed ]
                         resampled == ImageFile(fixed.dim, fixed.grid,
                                          <<"resampled", moving.data, transform>>)
                     IN  Proceed(w,
                           [ pc |-> "write", case |-> case_dir,
                             fixed_mask |-> <<"skull", fixed.data>>,
                             moving_mask |-> <<"skull", moving.data>>,
                             transform |-> transform,
                             resampled |-> resampled,
                             pending |->
                               [ k \in 1..2 |->
                                 IF RegisterWrites[k] = TRANSFORMED
                                 THEN <<TRANSFORMED, resampled>>
                                 ELSE <<TFM, TransformFile(transform)>> ] ])
                \/ Raise(w, ERR_REGISTRATION)
    /\ UNCHANGED <<fs, stage, pc, queue, prior, capVars, maskVars>>

\* subtract.py subtract_postop_from_preop, lines 37-56: the reads, the
\* resampling of postop into the grid of preop, and preop - postop
SubtractCall(w) ==
    /\ stage = "subtract"
    /\ wk[w].pc = "call"
    /\ LET case_dir == wk[w].case
           folder == fs[case_dir]
           preop == folder[PREOP]
           transform == folder[TFM].data
           resampled == ImageFile(preop.dim, preop.grid,
                            <<"resampled", folder[POSTOP].data, transform>>)
       IN  IF \/ ~Readable(folder, PREOP, "image")
              \/ ~Readable(folder, POSTOP, "image")
              \/ ~Readable(folder, TFM, "tfm")
           THEN Raise(w, ERR_READ)
           ELSE IF preop.dim # 3 \/ folder[POSTOP].dim # 3
           THEN Raise(w, ERR_RESAMPLE)
           ELSE IF ~SamePhysicalSpace(preop, resampled)
           THEN Raise(w, ERR_SPACE)
           ELSE Proceed(w,
                  [ pc |-> "write", case |-> case_dir,
                    pending |->
                      << <<DIFF, ImageFile(preop.dim, preop.grid,
                                    <<"diff", preop.data, resampled.data>>)>> >> ])
    /\ UNCHANGED <<fs, stage, pc, queue, prior, capVars, maskVars>>

\* binarize.py create_burrhole_mask, lines 113-158: the reads, the bone mask
\* (grid of preop), diff_pos * bone_mask, Otsu, closing and the component
\* filter (grid of diff), the head cap (grid of preop) and
\* cleaned_mask * head_cap_mask
BinarizeCall(w) ==
    /\ stage = "binarize"
    /\ wk[w].pc = "call"
    /\ LET case_dir == wk[w].case
           folder == fs[case_dir]
           preop == folder[PREOP]
           diff == folder[DIFF]
           bone_mask == ImageFile(preop.dim, preop.grid, <<"bone", preop.data>>)
           cleaned_mask == ImageFile(diff.dim, diff.grid,
                               <<"cleaned", diff.data, bone_mask.data>>)
           head_cap_mask == ImageFile(preop.dim, preop.grid, <<"head_cap">>)
       IN  IF ~Readable(folder, PREOP, "image") \/ ~Readable(folder, DIFF, "image")
           THEN Raise(w, ERR_READ)
           ELSE IF ~SamePhysicalSpace(diff, bone_mask)
           THEN Raise(w, ERR_SPACE)
           ELSE IF ~SamePhysicalSpace(cleaned_mask, head_cap_mask)
           THEN Raise(w, ERR_SPACE)
           ELSE Proceed(w,
                  [ pc |-> "write", case |-> case_dir,
                    pending |->
                      << <<MASK, ImageFile(diff.dim, diff.grid,
                                    <<"mask", preop.data, diff.data>>)>> >> ])
    /\ UNCHANGED <<fs, stage, pc, queue, prior, capVars, maskVars>>

\* the next sitk.WriteImage / sitk.WriteTransform of the call (register.py
\* 156-157, subtract.py 59, binarize.py 161).  A write that fails raises and
\* leaves the file as it was or partial.
WriteNext(w) ==
    /\ wk[w].pc = "write"
    /\ LET case_dir == wk[w].case
           name == wk[w].pending[1][1]
           content == wk[w].pending[1][2]
           rest == Tail(wk[w].pending)
       IN  \/ /\ fs' = WriteFile(fs, case_dir, name, content)
              /\ IF rest = << >>
                 THEN Return(w)
                 ELSE Proceed(w, [wk[w] EXCEPT !.pending = rest])
           \/ /\ fs' \in { fs, WriteFile(fs, case_dir, name, Partial) }
              /\ Raise(w, ERR_WRITE)
    /\ UNCHANGED <<stage, pc, queue, prior, capVars, maskVars>>

\* the loop ran out of case_dirs and every call has come back
EndLoop ==
    /\ pc = "loop"
    /\ next > Len(queue)
    /\ \A w \in DOMAIN wk : wk[w].pc = "idle"
    /\ pc' = "done"
    /\ UNCHANGED <<fs, stage, queue, next, report, wk, prior, capVars, maskVars>>

Stages == { "register", "subtract", "binarize" }

BatchNext ==
    \/ \E s \in Stages : StartStage(s)
    \/ \E w \in DOMAIN wk : Claim(w)
    \/ \E w \in DOMAIN wk : RegisterCall(w)
    \/ \E w \in DOMAIN wk : SubtractCall(w)
    \/ \E w \in DOMAIN wk : BinarizeCall(w)
    \/ \E w \in DOMAIN wk : WriteNext(w)
    \/ EndLoop

\* the dimensions of (preop, postop) of a case
DimPairs == { <<3, 3>>, <<2, 3>>, <<3, 4>>, <<2, 2>> }

InputImage(name, c, dim) ==
    ImageFile(dim, GridOf(<<name, c>>, 0), <<name, c>>)

\* a case folder that holds only preop.nii.gz and postop.nii.gz
InputFolder(c, dims) ==
    [ n \in FileNames |->
        IF n = PREOP THEN InputImage("preop", c, dims[1])
        ELSE IF n = POSTOP THEN InputImage("postop", c, dims[2])
        ELSE Absent ]

DriverInit ==
    /\ stage = "none" /\ pc = "idle"
    /\ queue = << >> /\ next = 1 /\ report = << >>
    /\ wk \in { [w \in 1..n |-> Idle] : n \in Workers }
    /\ prior = NoPrior
    /\ CapIdle /\ MaskIdle

BatchInit ==
    /\ fs \in { [c \in Cases |-> InputFolder(c, d[c])] : d \in [Cases -> DimPairs] }
    /\ DriverInit

SpecBatch == BatchInit /\ [][BatchNext]_vars

\* a diff.nii.gz that was put into the folder, not computed by subtract.py:
\* on the grid of preop, with its origin off by less or by more than the
\* tolerance, or on another grid altogether
SuppliedDiffs(c) ==
    { ImageFile(3, GridOf(<<"preop", c>>, off), <<"supplied", c>>) :
        off \in { 0, CoordinateTolerance \div 2, 2 * CoordinateTolerance } }
    \cup { ImageFile(3, GridOf(<<"other", c>>, 0), <<"supplied", c>>) }

SuppliedFolder(c, diff) == [InputFolder(c, <<3, 3>>) EXCEPT ![DIFF] = diff]

\* case folders of 3-D volumes in which a diff.nii.gz may already lie
SuppliedInit ==
    /\ fs \in { [c \in Cases |-> SuppliedFolder(c, d[c])] :
                  d \in [Cases -> UNION { SuppliedDiffs(c) : c \in Cases }
                                    \cup {Absent}] }
    /\ \A c \in Cases : fs[c][DIFF] \in SuppliedDiffs(c) \cup {Absent}
    /\ DriverInit

SpecSupplied == SuppliedInit /\ [][BatchNext]_vars

----------------------------------------------------------------------------
(* Batch scripts: claims *)

Complete(file) == file.kind \in {"image", "tfm"}

\* C3 (as claimed): a voxel-wise operation on operands that do not share
\* extents, spacing, origin and direction fails and produces no output
\* volume.  (In subtract.py the second operand is resampled into the grid of
\* the first, so the operands always share it; in binarize.py the operands
\* are the images read from diff.nii.gz and preop.nii.gz.)
C3_MismatchFailsWithoutOutput ==
    \A c \in DOMAIN fs :
        ( /\ fs[c][PREOP].kind = "image"
          /\ fs[c][DIFF].kind = "image"
          /\ fs[c][DIFF].grid # fs[c][PREOP].grid )
        => /\ ~Exists(fs[c], MASK)
           /\ \A w \in DOMAIN wk :
                (wk[w].pc # "idle" /\ wk[w].case = c /\ stage = "binarize")
                    => wk[w].pc = "call"
           /\ (stage = "binarize" /\ c \in DOMAIN report)
                => report[c] = Entry("failed", ERR_SPACE)

\* C4: when a batch stage ends, every discovered case has been taken up by
\* the loop, whatever cases failed before it: each is reported as skipped
\* (its outputs existed), as done (its outputs are written) or as failed with
\* the error that was raised.
C4_EveryCaseAttemptedAndReported ==
    pc = "done" =>
        \A i \in 1..Len(queue) :
            LET c == queue[i]
            IN  /\ c \in DOMAIN report
                /\ report[c].status \in {"skipped", "ok", "failed"}
                /\ report[c].status = "failed" =>
                     report[c].error \in { ERR_READ, ERR_DIM, ERR_REGISTRATION,
                                           ERR_RESAMPLE, ERR_SPACE, ERR_WRITE }
                /\ report[c].status = "skipped" => OutputsExist(stage, fs[c])
                /\ report[c].status = "ok" =>
                     CASE stage = "register" ->
                            Complete(fs[c][TRANSFORMED]) /\ Complete(fs[c][TFM])
                       [] stage = "subtract" -> Complete(fs[c][DIFF])
                       [] stage = "binarize" -> Complete(fs[c][MASK])

\* a finished run in which a case failed and a later case was still done
C4_Witness ==
    /\ pc = "done"
    /\ \E i \in 1..Len(queue) : \E j \in 1..Len(queue) :
         /\ i < j
         /\ queue[i] \in DOMAIN report /\ queue[j] \in DOMAIN report
         /\ report[queue[i]].status = "failed"
         /\ report[queue[j]].status = "ok"

NonThreeD(c) == fs[c][PREOP].dim # 3 \/ fs[c][POSTOP].dim # 3

\* C5: for a case whose fixed or moving volume is not 3-D, the call fails with
\* "Expected 3D images only." before it holds a skull mask, a transform or a
\* resampled volume, and neither postop_transformed.nii.gz nor
\* postop_to_preop.tfm is written.
C5_NonThreeDFailsBeforeAnyWork ==
    \A c \in DOMAIN fs :
        NonThreeD(c) =>
            /\ ~Exists(fs[c], TRANSFORMED)
            /\ ~Exists(fs[c], TFM)
            /\ \A w \in DOMAIN wk :
                 (wk[w].pc # "idle" /\ wk[w].case = c) =>
                     /\ wk[w].pc = "call"
                     /\ DOMAIN wk[w] = {"pc", "case"}
            /\ (stage = "register" /\ c \in DOMAIN report)
                 => report[c] = Entry("failed", ERR_DIM)

\* a case with a 3-D fixed and a 4-D moving volume, after its call failed
C5_Witness ==
    /\ stage = "register"
    /\ \E c \in DOMAIN fs :
         /\ fs[c][PREOP].dim = 3 /\ fs[c][POSTOP].dim = 4
         /\ c \in DOMAIN report
         /\ report[c] = Entry("failed", ERR_DIM)
         /\ ~Exists(fs[c], TRANSFORMED) /\ ~Exists(fs[c], TFM)

\* what processing case c alone, in sequence, computes from the files of c,
\* when the registration draws the given seed
SeqTransform(c, seed) ==
    [ fixed |-> <<"preop", c>>, moving |-> <<"postop", c>>, seed |-> seed ]

SeqResampledData(c, seed) ==
    <<"resampled", <<"postop", c>>, SeqTransform(c, seed)>>

SeqResampled(c, seed) ==
    ImageFile(3, GridOf(<<"preop", c>>, 0), SeqResampledData(c, seed))

SeqDiffData(c, seed) == <<"diff", <<"preop", c>>, SeqResampledData(c, seed)>>

SeqDiff(c, seed) == ImageFile(3, GridOf(<<"preop", c>>, 0), SeqDiffData(c, seed))

SeqMask(c, seed) ==
    ImageFile(3, GridOf(<<"preop", c>>, 0),
        <<"mask", <<"preop", c>>, SeqDiffData(c, seed)>>)

\* C8: under every interleaving of the workers, every output file of a case
\* that a stage has written completely holds what processing that case alone
\* computes from the case's own files (for the seed its registration drew),
\* and the inputs of the case are as they were.
C8_OutputsAsSequential ==
    \A c \in DOMAIN fs :
        LET f == fs[c]
        IN  /\ f[PREOP].kind = "image" /\ f[PREOP].data = <<"preop", c>>
            /\ f[POSTOP].kind = "image" /\ f[POSTOP].data = <<"postop", c>>
            /\ Complete(f[TRANSFORMED]) =>
                 \E seed \in Seeds : f[TRANSFORMED] = SeqResampled(c, seed)
            /\ Complete(f[TFM]) =>
                 \E seed \in Seeds :
                     /\ f[TFM] = TransformFile(SeqTransform(c, seed))
                     /\ f[TRANSFORMED] = SeqResampled(c, seed)
            /\ Complete(f[DIFF]) =>
                 /\ Complete(f[TFM])
                 /\ f[DIFF] = SeqDiff(c, f[TFM].data.seed)
            /\ Complete(f[MASK]) =>
                 /\ Complete(f[DIFF])
                 /\ f[MASK] = SeqMask(c, f[TFM].data.seed)

\* two workers in the writes of two different cases at the same time, one of
\* the cases being the second folder
C8_Witness ==
    /\ DOMAIN wk = {1, 2}
    /\ stage = "subtract"
    /\ wk[1].pc = "write" /\ wk[2].pc = "write"
    /\ wk[1].case # wk[2].case
    /\ \A c \in DOMAIN fs : Complete(fs[c][TFM])

\* C10: in every reachable state the mask exists only if the diff exists, the
\* diff only if the transform exists, the transform only if the resampled
\* image exists.
C10_ArtifactsInPipelineOrder ==
    \A c \in DOMAIN fs :
        /\ Exists(fs[c], MASK) => Exists(fs[c], DIFF)
        /\ Exists(fs[c], DIFF) => Exists(fs[c], TFM)
        /\ Exists(fs[c], TFM) => Exists(fs[c], TRANSFORMED)

\* one case with all four artifacts while another case's register call failed
\* between its two writes
C10_Witness ==
    /\ \E c \in DOMAIN fs : Exists(fs[c], MASK)
    /\ \E c \in DOMAIN fs : Exists(fs[c], TRANSFORMED) /\ ~Exists(fs[c], TFM)

\* the files a stage writes into a case folder
StageOutputs(s) ==
    CASE s = "register" -> { TRANSFORMED, TFM }
      [] s = "subtract" -> { DIFF }
      [] s = "binarize" -> { MASK }
      [] OTHER -> FileNames

HasOutputs(s, c) == \A n \in StageOutputs(s) : Exists(fs[c], n)

\* C11: a stage leaves a case untouched when the stage's outputs exist in its
\* folder (both postop_transformed.nii.gz and postop_to_preop.tfm for
\* register, diff.nii.gz for subtract, burrhole_mask_autoannot.nii.gz for
\* binarize): no worker is in the call or in the writes of such a case, and
\* no step changes a file of its folder.  Hence a stage started again right
\* after a run of it in which no case failed is reported as skipping every
\* case, takes no case into a call, and leaves every file as it was.
C11_ExistingOutputsLeftUntouched ==
    /\ [](\A w \in DOMAIN wk :
             wk[w].pc # "idle" => ~HasOutputs(stage, wk[w].case))
    /\ [][\A c \in DOMAIN fs :
             (stage \in Stages /\ HasOutputs(stage, c)) => fs'[c] = fs[c]]_vars
    /\ [](prior.rerun =>
             /\ fs = prior.files
             /\ \A w \in DOMAIN wk : wk[w].pc = "idle"
             /\ \A c \in DOMAIN report : report[c].status = "skipped")

\* register has been run again after a run in which it wrote the outputs of
\* every case, and the second run has ended having skipped every case
C11_Witness ==
    /\ stage = "register" /\ pc = "done"
    /\ prior.rerun
    /\ prior.ok = DOMAIN fs
    /\ \A c \in DOMAIN fs :
         /\ c \in DOMAIN report /\ report[c].status = "skipped"
         /\ Complete(fs[c][TRANSFORMED]) /\ Complete(fs[c][TFM])

----------------------------------------------------------------------------
(* Mask extractors: claims *)

\* the input is an already-binary mask, thresholded with bounds [1, 1], and
\* closing is disabled
BinaryRerun ==
    /\ input.kind = "skull"
    /\ input.lower = 1 /\ input.upper = 1
    /\ input.radius = 0
    /\ \A v \in Voxels(input.size) : input.image[v] \in {0, 1}

\* C6 (as claimed): the extraction returns exactly the input mask, for every
\* binary input mask, also one with components smaller than the minimum.
C6_BinaryRerunReturnsInput ==
    BinaryRerun => \A m \in DOMAIN runs : runs[m] = input.image

\* C6 (amended): the extraction returns the input mask with every connected
\* component of fewer than the minimum number of voxels removed and nothing
\* else changed; so it returns exactly the input whenever every component of
\* the input has at least the minimum number of voxels.
C6_BinaryRerunDropsSmallComponents ==
    BinaryRerun =>
        \A m \in DOMAIN runs :
            LET fg == Foreground(input.size, input.image)
                small == { v \in fg : Cardinality(Grow({v}, fg)) < m }
            IN  /\ \A v \in Voxels(input.size) :
                     runs[m][v] = IF v \in small THEN 0 ELSE input.image[v]
                /\ (small = {}) => runs[m] = input.image

\* a binary mask with a component below the minimum and one at or above it,
\* after the extraction ran on it
C6_Witness ==
    /\ BinaryRerun
    /\ \E m \in DOMAIN runs :
         LET fg == Foreground(input.size, input.image)
         IN  /\ \E v \in fg : Cardinality(Grow({v}, fg)) < m
             /\ \E v \in fg : Cardinality(Grow({v}, fg)) >= m
             /\ runs[m] # input.image
             /\ Foreground(input.size, runs[m]) # {}

\* C7: for the same input, the output for a larger minimum component size is
\* a subset of the output for a smaller one, for both extractors.
C7_MinSizeMonotone ==
    \A m1 \in DOMAIN runs : \A m2 \in DOMAIN runs :
        m1 <= m2 =>
            LET size == IF input.kind = "skull" THEN input.size
                        ELSE input.geometry.size
            IN  Foreground(size, runs[m2]) \subseteq Foreground(size, runs[m1])

\* the candidate segmenter called twice on one input, the larger minimum
\* giving a strictly smaller, non-empty mask
C7_Witness ==
    /\ input.kind = "burrhole"
    /\ \E m1 \in DOMAIN runs : \E m2 \in DOMAIN runs :
         /\ m1 < m2
         /\ Foreground(input.geometry.size, runs[m2]) # {}
         /\ Foreground(input.geometry.size, runs[m2])
                # Foreground(input.geometry.size, runs[m1])

----------------------------------------------------------------------------
(* Head cap: claims *)

\* the set of slice indices along axis a on which the mask is 1 everywhere,
\* and whether the mask is 0 on every voxel of every other slice
SliceOf(v, a) == v[a + 1]

MaskIsSlab(size, mask, a, lo, hi) ==
    \A v \in Voxels(size) :
        mask[v] = IF lo <= SliceOf(v, a) /\ SliceOf(v, a) <= hi THEN 1 ELSE 0

\* third component of COLUMN j of the direction matrix
ColumnThird(direction, j) == MatrixEntry(direction, 2, j)

Sign(x) == IF x > 0 THEN 1 ELSE IF x < 0 THEN -1 ELSE 0

\* C1 (as claimed): the superior-inferior axis is the index axis j whose
\* direction-matrix COLUMN j has the largest absolute third component, and the
\* direction sign is the sign of that same component.
C1_ColumnAxisChosen ==
    CapDone =>
        /\ \A j \in Axes3 :
              Abs(ColumnThird(ref.direction, j))
                  <= Abs(ColumnThird(ref.direction, cap.si_axis))
        /\ Sign(cap.si_dir) = Sign(ColumnThird(ref.direction, cap.si_axis))

\* C2 (as claimed): with the identity direction, axis 2 and a positive sign are
\* chosen and the mask is 1 on exactly the top round(depth / spacing[2]) slices
\* (clamped to the extent) along axis 2.
C2_IdentityTopRoundedSlices ==
    (CapDone /\ ref.direction = IdentityDirection) =>
        LET n == ref.size[2]
            d == Clamp(PyRound(HEAD_CAP_DEPTH_MM, ref.spacing[2]), 1, n)
        IN  /\ cap.si_axis = 2
            /\ cap.si_dir > 0
            /\ MaskIsSlab(ref.size, cap.mask, 2, n - d, n - 1)

\* C2 (amended): with the identity direction, axis 2 and a positive sign are
\* chosen and the mask is 1 on exactly the top floor(depth / spacing[2]) slices
\* (that count clamped to 1 .. extent) along axis 2, 0 on every other slice.
C2_IdentityTopTruncatedSlices ==
    (CapDone /\ ref.direction = IdentityDirection) =>
        LET n == ref.size[2]
            d == Clamp(HEAD_CAP_DEPTH_MM \div ref.spacing[2], 1, n)
        IN  /\ cap.si_axis = 2
            /\ cap.si_dir > 0
            /\ MaskIsSlab(ref.size, cap.mask, 2, n - d, n - 1)

\* an identity-direction volume whose truncated and rounded slice counts
\* differ and neither is clamped away
C2_Witness ==
    /\ CapDone
    /\ ref.direction = IdentityDirection
    /\ HEAD_CAP_DEPTH_MM \div ref.spacing[2] < ref.size[2]
    /\ PyRound(HEAD_CAP_DEPTH_MM, ref.spacing[2]) # HEAD_CAP_DEPTH_MM \div ref.spacing[2]
    /\ \E v \in Voxels(ref.size) : cap.mask[v] = 0
    /\ \E v \in Voxels(ref.size) : cap.mask[v] = 1

\* C9: the depth becomes a slice count d with 1 <= d <= n, and the mask is 1 on
\* exactly the d contiguous slices n-d .. n-1 of the chosen axis when the sign
\* is positive, 0 .. d-1 otherwise, and 0 on every voxel of any other slice.
C9_SlabOfClampedDepth ==
    CapDone =>
        LET a == cap.si_axis
            n == ref.size[a]
            d == Clamp(HEAD_CAP_DEPTH_MM \div ref.spacing[a], 1, n)
        IN  /\ cap.depth_slices = d
            /\ 1 <= d /\ d <= n
            /\ IF cap.si_dir > 0
               THEN MaskIsSlab(ref.size, cap.mask, a, n - d, n - 1)
               ELSE MaskIsSlab(ref.size, cap.mask, a, 0, d - 1)

\* a volume whose index runs toward inferior along x, with a slab that is
\* neither empty nor the whole volume, on a grid whose extents differ
C9_Witness ==
    /\ CapDone
    /\ cap.si_axis = 0
    /\ cap.si_dir < 0
    /\ ref.size[0] = 3 /\ ref.size[2] = 1
    /\ cap.depth_slices = 2
    /\ cap.start_slice = 0 /\ cap.end_slice = 1

====
